---- MODULE Spec2Model ----
(***************************************************************************)
(* Model of timesketch/lib/llms/providers/lmstudio.py: the LM Studio       *)
(* provider (LMStudioProvider) and its registration at module load.        *)
(*                                                                         *)
(* Strings that the code tests for emptiness, strips or concatenates are   *)
(* sequences of text fragments (the empty string is <<>>, + is \o).        *)
(* Optional values (config.get(k), Optional[dict]) are records             *)
(* [set, val]: None is [set |-> FALSE], so that None, the empty value and  *)
(* a non-empty value stay three different inputs.                          *)
(***************************************************************************)
EXTENDS Integers, Sequences, FiniteSets, TLC

\* ---------------------------------------------------------------- bounds
MaxUrlLen == 2      \* longest server_url drawn, in characters
MaxCalls == 2       \* generate calls made in one behaviour
NumThreads == 2     \* callers sharing the adapter instance

Threads == 1..NumThreads
Main == 1

\* ---------------------------------------------------------------- inputs
None == [set |-> FALSE, val |-> <<>>]
Some(s) == [set |-> TRUE, val |-> s]

UrlChars == {"h", "/"}
UrlStrings == UNION {[1..n -> UrlChars] : n \in 0..MaxUrlLen}
Urls == {None} \cup {Some(s) : s \in UrlStrings}
Models == {None, Some(<<>>), Some(<<"m1">>)}
ApiKeys == {None, Some(<<>>), Some(<<"secret">>)}
Configs == [server_url : Urls, model : Models, api_key : ApiKeys]

Prompts == {<<>>, <<"hi">>}

\* response_schema: None, the empty dict {}, a non-empty dict (by its keys)
NoSchema == [set |-> FALSE, val |-> {}]
EmptySchema == [set |-> TRUE, val |-> {}]
ObjectSchema == [set |-> TRUE, val |-> {"type", "properties"}]
Schemas == {NoSchema, EmptySchema, ObjectSchema}

\* what requests.post yields: an exception of the transport (no response
\* delivered: connection error, timeout) or a response with status and body
Statuses == {100, 200, 304, 404, 500}
Bodies == {"not json", " {\"a\": 1} "}
NetFail == [delivered |-> FALSE, status |-> 0, body |-> ""]
Responses == {NetFail} \cup [delivered : {TRUE}, status : Statuses, body : Bodies]

RegistryStates == {{}, {"lmstudio"}, {"ollama"}}

\* ----------------------------------------------------------------- state
VARIABLES
  registry,     \* manager.LLMManager's registered provider names
  loadState,    \* "unloaded", "loaded", or "crashed" (import raised)
  regOutcome,   \* "none", "registered", "swallowed"
  adapter,      \* "none", "ok" (constructed), "failed" (__init__ raised)
  config,       \* the mapping given to __init__
  _server_url, _model, _api_key,   \* the instance's fields
  pc,           \* per caller: "idle", "posting" (blocked in the POST), "done"
  call,         \* per caller: arguments, request, response, result of its call
  nCalls,       \* generate calls entered
  nPosts,       \* POST requests issued
  nLogs         \* diagnostic log entries emitted

vars == <<registry, loadState, regOutcome, adapter, config,
          _server_url, _model, _api_key, pc, call, nCalls, nPosts, nLogs>>

NoResult == [kind |-> "none", tag |-> "", val |-> ""]
NoCall == [prompt |-> <<>>, schema |-> NoSchema, url |-> <<>>, headers |-> <<>>,
           payload |-> <<>>, resp |-> NetFail, result |-> NoResult, logged |-> 0]

\* ------------------------------------------------------- pure operations
\* mutant of Truthy: "is not None" in place of the truth value
Truthy_NotNone(o) == o.set

\* Python truthiness of an Optional[str]: None and "" are falsy
Truthy(o) == o.set /\ o.val # <<>>

\* config.get(key): the value, None when the key is absent
get(cfg, key) == cfg[key]

\* str.rstrip(ch): every trailing ch removed
RECURSIVE rstrip(_, _)
rstrip(s, ch) ==
  IF s # <<>> /\ s[Len(s)] = ch THEN rstrip(SubSeq(s, 1, Len(s) - 1), ch) ELSE s

GeneratePath == <<"/", "generate">>

\* line 55
url == rstrip(_server_url.val, "/") \o GeneratePath

\* mutant of _headers: the api_key sent without the "Bearer " prefix
_headers_NoBearer ==
  IF Truthy(_api_key)
  THEN ("Content-Type" :> <<"application/json">>)
         @@ ("Authorization" :> _api_key.val)
  ELSE ("Content-Type" :> <<"application/json">>)

\* lines 43-47
_headers ==
  IF Truthy(_api_key)
  THEN ("Content-Type" :> <<"application/json">>)
         @@ ("Authorization" :> (<<"Bearer ">> \o _api_key.val))
  ELSE ("Content-Type" :> <<"application/json">>)

\* mutant of payload: the model field written whether or not one is configured
payload_AlwaysModel(prompt) == ("prompt" :> prompt) @@ ("model" :> _model.val)

\* lines 56-58
payload(prompt) ==
  IF Truthy(_model)
  THEN ("prompt" :> prompt) @@ ("model" :> _model.val)
  ELSE ("prompt" :> prompt)

\* mutant of raise_for_status: only server errors raise
raise_for_status_ServerOnly(resp) == 500 <= resp.status /\ resp.status < 600

\* line 62: Response.raise_for_status() raises HTTPError for a client error
\* (4xx) or server error (5xx) status and returns for every other status
raise_for_status(resp) == 400 <= resp.status /\ resp.status < 600

\* line 68: "if response_schema:" is the truth value of an Optional[dict]
schema_requested(response_schema) == response_schema.set /\ response_schema.val # {}

\* line 70: Response.json() on the bodies drawn; the decoded value is named
\* by its canonical form, which differs from the body text
JsonValid(body) == body = " {\"a\": 1} "
JsonValue(body) == IF body = " {\"a\": 1} " THEN "{a:1}" ELSE "undefined"

Return(tag, val) == [kind |-> "return", tag |-> tag, val |-> val]
Raise(tag, cause) == [kind |-> "raise", tag |-> tag, val |-> cause]

\* lines 60-75: the outcome of generate given what the POST yielded.
\* The exception classes are named by the error kind they stand for:
\* requests' exceptions are TransportError, the ValueError of line 72 is
\* DecodingError (val: the exception it is raised from).
generate_result(resp, response_schema) ==
  IF ~resp.delivered THEN Raise("TransportError", "RequestException")
  ELSE IF raise_for_status(resp) THEN Raise("TransportError", "HTTPError")
  ELSE IF schema_requested(response_schema)
       THEN IF JsonValid(resp.body)
            THEN Return("json", JsonValue(resp.body))
            ELSE Raise("DecodingError", "JSONDecodeError")
       ELSE Return("text", resp.body)

\* lines 61-65: logger.exception runs only in the except clause around
\* raise_for_status; requests.post (line 60) is outside the try
generate_logs(resp) == IF resp.delivered /\ raise_for_status(resp) THEN 1 ELSE 0

\* manager.LLMManager.register_provider: a duplicate name is an error; fault
\* stands for any other error the registry reports
register_raises(reg, name, fault) == fault \/ name \in reg

\* ------------------------------------------------------------------ init
Init ==
  /\ registry \in RegistryStates
  /\ loadState = "unloaded"
  /\ regOutcome = "none"
  /\ adapter = "none"
  /\ config = [server_url |-> None, model |-> None, api_key |-> None]
  /\ _server_url = None /\ _model = None /\ _api_key = None
  /\ pc = [t \in Threads |-> "idle"]
  /\ call = [t \in Threads |-> NoCall]
  /\ nCalls = 0 /\ nPosts = 0 /\ nLogs = 0

\* --------------------------------------------------------------- actions
\* mutant of ModuleLoad: no try/except around the registration
ModuleLoad_Propagates ==
  /\ loadState = "unloaded"
  /\ \E fault \in BOOLEAN :
       IF register_raises(registry, "lmstudio", fault)
       THEN /\ regOutcome' = "none"
            /\ registry' = registry
            /\ loadState' = "crashed"
       ELSE /\ regOutcome' = "registered"
            /\ registry' = registry \cup {"lmstudio"}
            /\ loadState' = "loaded"
  /\ UNCHANGED <<adapter, config, _server_url, _model, _api_key,
                 pc, call, nCalls, nPosts, nLogs>>

\* lines 78-83: registration at import, errors swallowed
ModuleLoad ==
  /\ loadState = "unloaded"
  /\ \E fault \in BOOLEAN :
       IF register_raises(registry, "lmstudio", fault)
       THEN /\ regOutcome' = "swallowed"
            /\ registry' = registry
       ELSE /\ regOutcome' = "registered"
            /\ registry' = registry \cup {"lmstudio"}
  /\ loadState' = "loaded"
  /\ UNCHANGED <<adapter, config, _server_url, _model, _api_key,
                 pc, call, nCalls, nPosts, nLogs>>

\* lines 27-41
Construct ==
  /\ loadState = "loaded"
  /\ adapter = "none"
  /\ \E cfg \in Configs :
       /\ config' = cfg
       /\ _server_url' = get(cfg, "server_url")
       /\ _model' = get(cfg, "model")
       /\ _api_key' = get(cfg, "api_key")
       /\ adapter' = IF ~Truthy(get(cfg, "server_url")) THEN "failed" ELSE "ok"
  /\ UNCHANGED <<registry, loadState, regOutcome, pc, call, nCalls, nPosts, nLogs>>

\* mutant of GenerateSend: the call consumes the model it read from the instance
GenerateSend_ClearsModel(t) ==
  /\ adapter = "ok"
  /\ pc[t] \in {"idle", "done"}
  /\ nCalls < MaxCalls
  /\ \E prompt \in Prompts, response_schema \in Schemas :
       call' = [call EXCEPT ![t] =
                  [NoCall EXCEPT !.prompt = prompt, !.schema = response_schema,
                                 !.url = url, !.headers = _headers,
                                 !.payload = payload(prompt)]]
  /\ pc' = [pc EXCEPT ![t] = "posting"]
  /\ nCalls' = nCalls + 1
  /\ nPosts' = nPosts + 1
  /\ _model' = None
  /\ UNCHANGED <<registry, loadState, regOutcome, adapter, config,
                 _server_url, _api_key, nLogs>>

\* lines 55-60: caller t enters generate, builds the request and issues the
\* POST, in which it then blocks
GenerateSend(t) ==
  /\ adapter = "ok"
  /\ pc[t] \in {"idle", "done"}
  /\ nCalls < MaxCalls
  /\ \E prompt \in Prompts, response_schema \in Schemas :
       call' = [call EXCEPT ![t] =
                  [NoCall EXCEPT !.prompt = prompt, !.schema = response_schema,
                                 !.url = url, !.headers = _headers,
                                 !.payload = payload(prompt)]]
  /\ pc' = [pc EXCEPT ![t] = "posting"]
  /\ nCalls' = nCalls + 1
  /\ nPosts' = nPosts + 1
  /\ UNCHANGED <<registry, loadState, regOutcome, adapter, config,
                 _server_url, _model, _api_key, nLogs>>

\* mutant of GenerateComplete: a failed exchange is sent once more
GenerateComplete_Retry(t) ==
  /\ pc[t] = "posting"
  /\ \E resp \in Responses :
       /\ call' = [call EXCEPT ![t].resp = resp,
                               ![t].result = generate_result(resp, call[t].schema),
                               ![t].logged = generate_logs(resp)]
       /\ nLogs' = nLogs + generate_logs(resp)
       /\ nPosts' = IF generate_result(resp, call[t].schema).kind = "raise"
                    THEN nPosts + 1 ELSE nPosts
  /\ pc' = [pc EXCEPT ![t] = "done"]
  /\ UNCHANGED <<registry, loadState, regOutcome, adapter, config,
                 _server_url, _model, _api_key, nCalls>>

\* lines 60-75: the POST of caller t completes (or raises) and generate
\* runs to its return or raise
GenerateComplete(t) ==
  /\ pc[t] = "posting"
  /\ \E resp \in Responses :
       /\ call' = [call EXCEPT ![t].resp = resp,
                               ![t].result = generate_result(resp, call[t].schema),
                               ![t].logged = generate_logs(resp)]
       /\ nLogs' = nLogs + generate_logs(resp)
  /\ pc' = [pc EXCEPT ![t] = "done"]
  /\ UNCHANGED <<registry, loadState, regOutcome, adapter, config,
                 _server_url, _model, _api_key, nCalls, nPosts>>

\* one caller at a time: load, construct, then calls in sequence
Next ==
  \/ ModuleLoad
  \/ Construct
  \/ GenerateSend(Main)
  \/ GenerateComplete(Main)

Spec == Init /\ [][Next]_vars

\* several callers share one constructed adapter
ConcConfigs == [server_url : {Some(<<"h", "/">>)},
                model : {None, Some(<<"m1">>)},
                api_key : {None, Some(<<"secret">>)}]

InitConc ==
  /\ registry = {"lmstudio"}
  /\ loadState = "loaded"
  /\ regOutcome = "registered"
  /\ adapter = "ok"
  /\ config \in ConcConfigs
  /\ _server_url = get(config, "server_url")
  /\ _model = get(config, "model")
  /\ _api_key = get(config, "api_key")
  /\ pc = [t \in Threads |-> "idle"]
  /\ call = [t \in Threads |-> NoCall]
  /\ nCalls = 0 /\ nPosts = 0 /\ nLogs = 0

NextConc ==
  \/ \E t \in Threads : GenerateSend(t)
  \/ \E t \in Threads : GenerateComplete(t)

SpecConc == InitConc /\ [][NextConc]_vars

\* ---------------------------------------------------------------- claims
Started(t) == pc[t] \in {"posting", "done"}
Done(t) == pc[t] = "done"
Success2xx(resp) == resp.delivered /\ 200 <= resp.status /\ resp.status <= 299

\* u is s with its trailing slashes removed, followed by /generate
UrlNormalized(u, s) ==
  \E k \in 0..Len(s) :
    /\ u = SubSeq(s, 1, k) \o <<"/", "generate">>
    /\ (k > 0 => s[k] # "/")
    /\ \A i \in (k + 1)..Len(s) : s[i] = "/"

\* C1: every generate call issues exactly one POST whatever its outcome (as
\* many requests sent as calls entered, none re-issued), addressed to the
\* configured server_url without its trailing slashes followed by /generate,
\* with the header Content-Type: application/json.
C1_OnePostPerCall ==
  /\ nPosts = nCalls
  /\ \A t \in Threads : Started(t) =>
       /\ UrlNormalized(call[t].url, config.server_url.val)
       /\ "Content-Type" \in DOMAIN call[t].headers
       /\ call[t].headers["Content-Type"] = <<"application/json">>

C1_Witness ==
  /\ Done(Main) /\ nCalls = 2 /\ nPosts = 2
  /\ call[Main].resp.delivered /\ call[Main].resp.status = 500
  /\ call[Main].prompt = <<>>
  /\ config.server_url = Some(<<"h", "/">>)
  /\ call[Main].url = <<"h", "/", "generate">>

\* C2 as stated: a 2xx status is success and every other status (1xx, 3xx,
\* 4xx, 5xx) makes generate raise TransportError, before any body
\* interpretation.
C2_NonSuccessStatusFails ==
  \A t \in Threads : (Done(t) /\ call[t].resp.delivered) =>
    IF Success2xx(call[t].resp)
    THEN call[t].result.tag # "TransportError"
    ELSE call[t].result = Raise("TransportError", "HTTPError")

\* C2 amended: a 4xx or 5xx status makes generate raise TransportError and
\* return nothing, whatever response_schema and the body are; every other
\* status (1xx, 2xx, 3xx) is treated as success: no TransportError, the body
\* is interpreted.
C2_ErrorStatusFails ==
  \A t \in Threads : (Done(t) /\ call[t].resp.delivered) =>
    IF 400 <= call[t].resp.status /\ call[t].resp.status <= 599
    THEN call[t].result = Raise("TransportError", "HTTPError")
    ELSE /\ call[t].result.tag # "TransportError"
         /\ call[t].result.tag \in {"text", "json", "DecodingError"}

C2_Witness ==
  /\ Done(Main)
  /\ call[Main].resp = [delivered |-> TRUE, status |-> 404, body |-> " {\"a\": 1} "]
  /\ call[Main].schema = ObjectSchema
  /\ call[Main].result = Raise("TransportError", "HTTPError")

\* C3: every transport failure of generate (a failure status, or a failure
\* of the POST itself) is logged and then re-raised as TransportError, and a
\* log entry is emitted only in that case.
C3_TransportFailureLogged ==
  \A t \in Threads : Done(t) =>
    /\ (call[t].result.tag = "TransportError" <=> call[t].logged = 1)
    /\ (~call[t].resp.delivered => call[t].result.tag = "TransportError")

\* C4: on a success status the parse path is selected exactly by whether
\* response_schema was supplied: any non-null schema (the empty mapping
\* included) with a valid JSON body returns the decoded value; no schema
\* returns the body text verbatim.
C4_SchemaSelectsParsePath ==
  \A t \in Threads : (Done(t) /\ Success2xx(call[t].resp)) =>
    /\ (call[t].schema.set /\ JsonValid(call[t].resp.body)) =>
         call[t].result = Return("json", JsonValue(call[t].resp.body))
    /\ ~call[t].schema.set => call[t].result = Return("text", call[t].resp.body)

\* C5: on a success status with a body that is not valid JSON, every
\* non-null response_schema makes generate raise DecodingError wrapping the
\* parse failure, without re-issuing the request; with no response_schema
\* DecodingError is never raised.
C5_InvalidJsonRaisesDecodingError ==
  /\ nPosts = nCalls
  /\ \A t \in Threads : Done(t) =>
       /\ (Success2xx(call[t].resp) /\ call[t].schema.set
             /\ ~JsonValid(call[t].resp.body)) =>
            call[t].result = Raise("DecodingError", "JSONDecodeError")
       /\ ~call[t].schema.set => call[t].result.tag # "DecodingError"

\* C6: construction fails exactly when server_url is absent or the empty
\* string; it sends no request, and no request is ever sent through an
\* adapter whose construction failed.
C6_ConstructionRequiresServerUrl ==
  /\ adapter # "none" =>
       (adapter = "failed" <=>
          (~config.server_url.set \/ config.server_url.val = <<>>))
  /\ adapter # "ok" => (nPosts = 0 /\ \A t \in Threads : pc[t] = "idle")
  /\ (adapter = "ok" /\ nCalls = 0) => nPosts = 0

C6_Witness ==
  /\ adapter = "failed"
  /\ config.server_url = Some(<<>>)
  /\ config.model = Some(<<"m1">>)
  /\ nPosts = 0

\* C7: a request carries Authorization: "Bearer " + api_key when an api_key
\* is configured (a non-empty one: the empty string counts as absent, as
\* for server_url) and no Authorization header otherwise; the header set is
\* {Content-Type} or {Content-Type, Authorization}, fixed by the
\* configuration alone.
C7_AuthorizationHeader ==
  \A t \in Threads : Started(t) =>
    IF config.api_key.set /\ config.api_key.val # <<>>
    THEN /\ DOMAIN call[t].headers = {"Content-Type", "Authorization"}
         /\ call[t].headers["Authorization"] = <<"Bearer ">> \o config.api_key.val
    ELSE DOMAIN call[t].headers = {"Content-Type"}

C7_Witness ==
  /\ Started(Main)
  /\ config.api_key = Some(<<"secret">>)
  /\ call[Main].headers["Authorization"] = <<"Bearer ", "secret">>
  /\ call[Main].schema = ObjectSchema

\* C8: the request body holds the prompt exactly as passed, plus the field
\* model equal to the configured model when one is configured (non-empty),
\* and only the prompt field otherwise; response_schema is never in it.
C8_RequestBody ==
  \A t \in Threads : Started(t) =>
    /\ call[t].payload["prompt"] = call[t].prompt
    /\ "response_schema" \notin DOMAIN call[t].payload
    /\ IF config.model.set /\ config.model.val # <<>>
       THEN /\ DOMAIN call[t].payload = {"prompt", "model"}
            /\ call[t].payload["model"] = config.model.val
       ELSE DOMAIN call[t].payload = {"prompt"}

C8_Witness ==
  /\ Started(Main)
  /\ config.model = Some(<<"m1">>)
  /\ call[Main].prompt = <<"hi">>
  /\ call[Main].schema = ObjectSchema
  /\ call[Main].payload = ("prompt" :> <<"hi">>) @@ ("model" :> <<"m1">>)

\* C9: no call writes the adapter: under any interleaving of calls the
\* stored server_url, model and api_key keep their construction values; and
\* calls do not influence each other: all calls carry the same URL and
\* headers, calls with equal prompts the same body, and calls with equal
\* schema and response the same result and log entry.
C9_NoSharedState ==
  /\ _server_url = config.server_url
  /\ _model = config.model
  /\ _api_key = config.api_key
  /\ \A t, u \in Threads : (Started(t) /\ Started(u)) =>
       /\ call[t].url = call[u].url
       /\ call[t].headers = call[u].headers
       /\ call[t].prompt = call[u].prompt => call[t].payload = call[u].payload
       /\ (Done(t) /\ Done(u) /\ call[t].schema = call[u].schema
             /\ call[t].resp = call[u].resp) =>
            (call[t].result = call[u].result /\ call[t].logged = call[u].logged)

C9_Witness ==
  /\ pc[1] = "posting" /\ pc[2] = "posting"
  /\ nCalls = 2
  /\ call[1].prompt = <<"hi">> /\ call[2].prompt = <<"hi">>
  /\ call[1].schema = NoSchema /\ call[2].schema = ObjectSchema
  /\ call[1].payload = call[2].payload
  /\ config.model = Some(<<"m1">>) /\ _model = Some(<<"m1">>)
  /\ config.api_key = Some(<<"secret">>) /\ _api_key = Some(<<"secret">>)

\* C10: module load never raises to the host: whatever the registry holds
\* and whatever register_provider reports, the error is swallowed, the
\* import completes, and the class can still be constructed and used.
C10_RegistrationNeverRaises ==
  /\ loadState \in {"unloaded", "loaded"}
  /\ loadState = "loaded" => regOutcome \in {"registered", "swallowed"}
  /\ regOutcome = "registered" => "lmstudio" \in registry
  /\ (loadState = "loaded" /\ adapter = "none") => ENABLED Construct
  /\ (adapter = "ok" /\ pc[Main] = "idle" /\ nCalls < MaxCalls) =>
       ENABLED GenerateSend(Main)

C10_Witness ==
  /\ loadState = "loaded"
  /\ regOutcome = "swallowed"
  /\ registry = {}
  /\ Done(Main)
  /\ call[Main].result.kind = "return"

====
